---- MODULE Spec2Model ----
(***************************************************************************)
(* Alignment progress and content caching engine of sub-learning-frontend. *)
(*                                                                         *)
(* The components are modelled by these specifications over the shared     *)
(* variables:                                                              *)
(*   CacheSpec       app/utils/cache.py, class SubtitleCache               *)
(*   ServiceSpec     app/services/subtitle_service.py, the caller of the   *)
(*                   cache                                                 *)
(*   ProgressSpec    app/services/progress_service.py, ProgressService,    *)
(*                   and the progress handlers of app/blueprints/api/      *)
(*                   subtitles.py                                          *)
(*   UpdateSpec      ProgressService alone, with invalid arguments and a   *)
(*                   running clock                                         *)
(*   ConcurrentSpec  update_progress of two requests at once               *)
(*   PageSpec        the alignments handler of blueprints/api/subtitles.py *)
(*   StreakSpec      SessionAnalyticsService.calculate_learning_streak     *)
(*   DashboardSpec   SessionAnalyticsService.get_dashboard_statistics      *)
(*   ThreadSpec      SubtitleCache called by two threads at once           *)
(*   FillSpec        get_subtitle_content and invalidate_cache of two      *)
(*                   requests at once                                      *)
(*   ClientSpec      a client that pages through an alignment set          *)
(*   RateSpec        the rate_limit decorator of blueprints/api/           *)
(*                   subtitles.py                                          *)
(* The variable last records the most recent call: its arguments, the      *)
(* clock it read, what it returned and the part of the state it saw.       *)
(***************************************************************************)
EXTENDS Integers, Sequences, FiniteSets, TLC

VARIABLES
    cache,      \* SubtitleCache._cache: dict in insertion order, a sequence of
                \* [key, content, expiry]
    hits,       \* SubtitleCache._hits
    misses,     \* SubtitleCache._misses
    now,        \* time.time() / db.func.current_timestamp()
    rows,       \* table user_progress: a sequence of rows in primary-key order
    minutesIn,  \* per (user, sub_link): sum of the minutes of the accepted updates
    gets,       \* the calls of SubtitleCache.get since construction or the last clear
    txn,        \* per concurrent request or thread: where its call stands
    lock,       \* SubtitleCache._lock: whether a thread holds it
    storage,    \* _rate_limit_storage: per user the times of the admitted requests
    last        \* the most recent call

vars == <<cache, hits, misses, now, rows, minutesIn, gets, txn, lock, storage, last>>

\* Optional[...]: None is the empty sequence, a value x is <<x>>
None == <<>>
Some(x) == <<x>>

(***************************************************************************)
(* Bounds of the model.                                                    *)
(***************************************************************************)
max_size == 1
default_ttl == 2
MaxTime == 2
MaxRequests == 1
NumPairs == 2
MaxMinutes == 2
MaxClock == 1
MaxTotal == 3
MaxCalls == 2
MaxPairs == 3
MaxDay == 3
MaxRecords == 3
MaxLimit == 2
MaxTicks == 2

\* the (movie_id, language_id) pairs the calls are made with
MovieIds == {1, 12}
LanguageIds == {1, 2}
KeyArgs == {<<1, 1>>, <<1, 2>>, <<12, 1>>}
\* set is called with content "v2", warm_cache with content "v1"
Contents == {"v2"}
\* ttl arguments; 0 stands for ttl=None and ttl=0, which "ttl or default_ttl"
\* both turn into default_ttl
TtlArgs == -1..(default_ttl - 1)
\* the users the rate-limited endpoints are called by
RateUsers == {1, 2}

(***************************************************************************)
(* SubtitleCache                                                           *)
(***************************************************************************)
DigitChar == <<"0", "1", "2", "3", "4", "5", "6", "7", "8", "9">>

\* str(int) of a non-negative integer, as the sequence of its decimal digits
RECURSIVE str(_)
str(n) ==
    IF n < 10 THEN <<DigitChar[n + 1]>>
    ELSE Append(str(n \div 10), DigitChar[(n % 10) + 1])

generate_key(movie_id, language_id) ==
    <<"subtitles", ":">> \o str(movie_id) \o <<":">> \o str(language_id)

is_expired(timestamp, t) == t > timestamp

CacheKeys(c) == {c[i].key : i \in 1..Len(c)}

\* c[key], for key in c
Entry(c, key) == c[CHOOSE i \in 1..Len(c) : c[i].key = key]

\* a store that leaves the entry of an existing key as it is
dict_store_keep_existing(c, key, content, expiry) ==
    IF key \in CacheKeys(c) THEN c
    ELSE Append(c, [key |-> key, content |-> content, expiry |-> expiry])

\* c[key] = (content, expiry): an existing key keeps its place in the dict
dict_store(c, key, content, expiry) ==
    LET e == [key |-> key, content |-> content, expiry |-> expiry]
    IN  IF key \in CacheKeys(c)
        THEN [i \in 1..Len(c) |-> IF c[i].key = key THEN e ELSE c[i]]
        ELSE Append(c, e)

\* del c[key] for every key of ks
dict_del(c, ks) == SelectSeq(c, LAMBDA e : e.key \notin ks)

evict_expired(c, t) ==
    LET expired_keys == {c[i].key : i \in {j \in 1..Len(c) : t > c[j].expiry}}
    IN  dict_del(c, expired_keys)

\* sorted() is stable: e goes after every item whose expiry is not larger
SortedInsert(s, e) ==
    LET p == Cardinality({i \in 1..Len(s) : s[i].expiry <= e.expiry})
    IN  SubSeq(s, 1, p) \o <<e>> \o SubSeq(s, p + 1, Len(s))

RECURSIVE sorted_items(_)
sorted_items(c) ==
    IF c = <<>> THEN <<>>
    ELSE SortedInsert(sorted_items(SubSeq(c, 1, Len(c) - 1)), c[Len(c)])

\* _enforce_size_limit keeping the first max_size items of the dict instead
\* of the last ones of the sorted list
enforce_size_limit_keep_first(c) ==
    IF Len(c) <= max_size THEN c ELSE SubSeq(c, 1, max_size)

\* _enforce_size_limit with "<= max_size + 1" as its early return
enforce_size_limit_off_by_one(c) ==
    IF Len(c) <= max_size + 1 THEN c
    ELSE LET sorted == sorted_items(c)
             items_to_remove == Len(c) - max_size
         IN  dict_del(c, {sorted[i].key : i \in 1..items_to_remove})

enforce_size_limit(c) ==
    IF Len(c) <= max_size THEN c
    ELSE LET sorted == sorted_items(c)
             items_to_remove == Len(c) - max_size
         IN  dict_del(c, {sorted[i].key : i \in 1..items_to_remove})

\* what a get records of the call before it: when that was a set of the same
\* key, the content it stored, whether its expiry has passed by now, and how
\* many other entries it found that expire no sooner
preceding_set(key) ==
    IF last.op = "set" /\ last.key = key
    THEN Some([content |-> last.content,
               live |-> ~is_expired(last.expiry, now),
               later |-> last.later])
    ELSE None

\* get returning the content of an expired entry while it deletes it
get_serve_then_discard(movie_id, language_id) ==
    LET key == generate_key(movie_id, language_id)
    IN  /\ hits + misses < MaxRequests
        /\ IF key \notin CacheKeys(cache)
           THEN /\ misses' = misses + 1
                /\ UNCHANGED <<cache, hits>>
                /\ last' = [op |-> "get", key |-> key, found |-> FALSE,
                            expired |-> FALSE, result |-> None,
                            hits |-> hits, misses |-> misses,
                            prev |-> preceding_set(key)]
           ELSE /\ hits' = hits + 1
                /\ cache' = IF is_expired(Entry(cache, key).expiry, now)
                            THEN dict_del(cache, {key}) ELSE cache
                /\ UNCHANGED misses
                /\ last' = [op |-> "get", key |-> key, found |-> TRUE,
                            expired |-> now > Entry(cache, key).expiry,
                            result |-> Some(Entry(cache, key).content),
                            hits |-> hits, misses |-> misses,
                            prev |-> preceding_set(key)]
        /\ gets' = gets + 1
        /\ UNCHANGED <<now, rows, minutesIn, txn, lock, storage>>

\* get leaving through the expired branch before it counts the miss
get_expired_uncounted(movie_id, language_id) ==
    LET key == generate_key(movie_id, language_id)
    IN  /\ hits + misses < MaxRequests
        /\ IF key \notin CacheKeys(cache)
           THEN /\ misses' = misses + 1
                /\ UNCHANGED <<cache, hits>>
                /\ last' = [op |-> "get", key |-> key, found |-> FALSE,
                            expired |-> FALSE, result |-> None,
                            hits |-> hits, misses |-> misses,
                            prev |-> preceding_set(key)]
           ELSE IF is_expired(Entry(cache, key).expiry, now)
           THEN /\ cache' = dict_del(cache, {key})
                /\ UNCHANGED <<hits, misses>>
                /\ last' = [op |-> "get", key |-> key, found |-> TRUE,
                            expired |-> TRUE, result |-> None,
                            hits |-> hits, misses |-> misses,
                            prev |-> preceding_set(key)]
           ELSE /\ hits' = hits + 1
                /\ UNCHANGED <<cache, misses>>
                /\ last' = [op |-> "get", key |-> key, found |-> TRUE,
                            expired |-> now > Entry(cache, key).expiry,
                            result |-> Some(Entry(cache, key).content),
                            hits |-> hits, misses |-> misses,
                            prev |-> preceding_set(key)]
        /\ gets' = gets + 1
        /\ UNCHANGED <<now, rows, minutesIn, txn, lock, storage>>

get(movie_id, language_id) ==
    LET key == generate_key(movie_id, language_id)
    IN  /\ hits + misses < MaxRequests
        /\ IF key \notin CacheKeys(cache)
           THEN /\ misses' = misses + 1
                /\ UNCHANGED <<cache, hits>>
                /\ last' = [op |-> "get", key |-> key, found |-> FALSE,
                            expired |-> FALSE, result |-> None,
                            hits |-> hits, misses |-> misses,
                            prev |-> preceding_set(key)]
           ELSE IF is_expired(Entry(cache, key).expiry, now)
           THEN /\ cache' = dict_del(cache, {key})
                /\ misses' = misses + 1
                /\ UNCHANGED hits
                /\ last' = [op |-> "get", key |-> key, found |-> TRUE,
                            expired |-> TRUE, result |-> None,
                            hits |-> hits, misses |-> misses,
                            prev |-> preceding_set(key)]
           ELSE /\ hits' = hits + 1
                /\ UNCHANGED <<cache, misses>>
                /\ last' = [op |-> "get", key |-> key, found |-> TRUE,
                            expired |-> now > Entry(cache, key).expiry,
                            result |-> Some(Entry(cache, key).content),
                            hits |-> hits, misses |-> misses,
                            prev |-> preceding_set(key)]
        /\ gets' = gets + 1
        /\ UNCHANGED <<now, rows, minutesIn, txn, lock, storage>>

\* ttl = ttl or self.default_ttl: None and 0 (ttl_arg = 0) take the default.
\* The two readings of time.time(), for expiry and in _evict_expired, are
\* one: a call takes less than the second that integer ttls are counted in.
set(movie_id, language_id, content, ttl_arg) ==
    LET key == generate_key(movie_id, language_id)
        ttl == IF ttl_arg = 0 THEN default_ttl ELSE ttl_arg
        expiry == now + ttl
        stored == dict_store(cache, key, content, expiry)
        purged == evict_expired(stored, now)
    IN  /\ cache' = enforce_size_limit(purged)
        /\ last' = [op |-> "set", key |-> key, content |-> content,
                    ttl |-> ttl, expiry |-> expiry, unexpired |-> Len(purged),
                    later |-> Cardinality({i \in 1..Len(purged) :
                                             /\ purged[i].key # key
                                             /\ purged[i].expiry >= expiry}),
                    evicted |-> {purged[i].expiry :
                                   i \in {j \in 1..Len(purged) :
                                            purged[j].key \notin CacheKeys(cache')}}]
        /\ UNCHANGED <<hits, misses, now, rows, minutesIn, gets, txn, lock, storage>>

\* language_id = None invalidates every key that starts with the movie's prefix
IsPrefix(p, s) == Len(p) <= Len(s) /\ SubSeq(s, 1, Len(p)) = p

\* invalidate with the prefix f"subtitles:{movie_id}", without its last colon
invalidate_prefix_without_colon(movie_id, language_id) ==
    /\ cache # <<>>
    /\ IF language_id # None
       THEN cache' = dict_del(cache, {generate_key(movie_id, language_id[1])})
       ELSE LET prefix == <<"subtitles", ":">> \o str(movie_id)
                keys_to_remove == {k \in CacheKeys(cache) : IsPrefix(prefix, k)}
            IN  cache' = dict_del(cache, keys_to_remove)
    /\ last' = [op |-> "invalidate", movie_id |-> movie_id,
                language_id |-> language_id,
                removed |-> Len(cache) - Len(cache')]
    /\ UNCHANGED <<hits, misses, now, rows, minutesIn, gets, txn, lock, storage>>

invalidate(movie_id, language_id) ==
    /\ cache # <<>>
    /\ IF language_id # None
       THEN cache' = dict_del(cache, {generate_key(movie_id, language_id[1])})
       ELSE LET prefix == <<"subtitles", ":">> \o str(movie_id) \o <<":">>
                keys_to_remove == {k \in CacheKeys(cache) : IsPrefix(prefix, k)}
            IN  cache' = dict_del(cache, keys_to_remove)
    /\ last' = [op |-> "invalidate", movie_id |-> movie_id,
                language_id |-> language_id,
                removed |-> Len(cache) - Len(cache')]
    /\ UNCHANGED <<hits, misses, now, rows, minutesIn, gets, txn, lock, storage>>

clear ==
    /\ cache # <<>> \/ hits + misses > 0
    /\ cache' = <<>>
    /\ hits' = 0
    /\ misses' = 0
    /\ gets' = 0
    /\ last' = [op |-> "clear"]
    /\ UNCHANGED <<now, rows, minutesIn, txn, lock, storage>>

\* subtitle_data: a dict from (movie_id, language_id) to content, here with
\* one or two items in iteration order
warm_cache(subtitle_data) ==
    LET RECURSIVE fill(_, _)
        fill(c, i) ==
            IF i > Len(subtitle_data) THEN c
            ELSE fill(dict_store(c,
                                 generate_key(subtitle_data[i].movie_id,
                                              subtitle_data[i].language_id),
                                 subtitle_data[i].content,
                                 now + default_ttl),
                      i + 1)
    IN  /\ cache' = fill(cache, 1)
        /\ last' = [op |-> "warm_cache", data |-> subtitle_data]
        /\ UNCHANGED <<hits, misses, now, rows, minutesIn, gets, txn, lock, storage>>

WarmItems ==
    {[movie_id |-> k[1], language_id |-> k[2], content |-> "v1"] : k \in KeyArgs}

WarmArgs ==
    {<<a>> : a \in WarmItems} \cup
    {<<a, b>> : a \in WarmItems, b \in {x \in WarmItems : x.movie_id = 12}}

(***************************************************************************)
(* Progress tracking: the database rows the progress code reads            *)
(***************************************************************************)
UserIds == {1}

\* the arguments the progress calls are made with
IndexArgs == -1..(NumPairs + 1)
MinuteArgs == {-1, 0, 1}

\* table sub_links holds links 1 and 2; 3 is the id of no link
SubLinkIds == {1, 2}
SubLinkArgs == {1, 2, 3}

\* table sub_link_lines: link 1 has NumPairs aligned pairs
\* [[source_line_ids], [target_line_ids]], link 2 has no alignment row
link_data(sub_link_id) ==
    IF sub_link_id = 1
    THEN Some([i \in 1..NumPairs |-> << <<i>>, <<NumPairs + i>> >>])
    ELSE None

\* len(alignment_data.link_data) if alignment_data and alignment_data.link_data else 0
total_alignments(sub_link_id) ==
    IF link_data(sub_link_id) # None /\ link_data(sub_link_id)[1] # <<>>
    THEN Len(link_data(sub_link_id)[1])
    ELSE 0

\* UserProgress as progress_service.py and the tests use it: with the columns
\* total_alignments_completed and session_duration_minutes, which the class
\* in app/models/subtitle.py does not declare. These are the values that the
\* handlers of the subtitles blueprint, which do not set them, leave in a
\* row they create.
UserProgressDefaults ==
    [total_alignments_completed |-> 0, session_duration_minutes |-> 0]

UserProgress(user_id, sub_link_id, index, completed, minutes, t) ==
    [user_id |-> user_id, sub_link_id |-> sub_link_id,
     current_alignment_index |-> index,
     total_alignments_completed |-> completed,
     session_duration_minutes |-> minutes,
     last_accessed |-> t]

Matching(rs, user_id, sub_link_id) ==
    {i \in 1..Len(rs) : rs[i].user_id = user_id /\ rs[i].sub_link_id = sub_link_id}

Min(S) == CHOOSE x \in S : \A y \in S : x <= y
Max(a, b) == IF a >= b THEN a ELSE b

\* UserProgress.query.filter_by(user_id=..., sub_link_id=...).first()
first(rs, user_id, sub_link_id) ==
    IF Matching(rs, user_id, sub_link_id) = {} THEN None
    ELSE Some(rs[Min(Matching(rs, user_id, sub_link_id))])

\* the assignments to an existing row, committed
store_first(rs, user_id, sub_link_id, row) ==
    [rs EXCEPT ![Min(Matching(rs, user_id, sub_link_id))] = row]

(***************************************************************************)
(* ProgressService                                                         *)
(***************************************************************************)
NoError == "ok"
NegativeIndex == "Current alignment index cannot be negative"
NegativeDuration == "Session duration cannot be negative"
NotFound == "Subtitle link not found"
ExceedsTotal == "Alignment index exceeds total alignments"

\* round(x, 2) of x = num / den, in hundredths: the nearest integer to
\* 100 * x, the even one of two that are equally near (float round-off,
\* which could move a value off such a tie, is not modelled)
round(num, den) ==
    LET q == (100 * num) \div den
        r == (100 * num) % den
    IN  IF 2 * r > den \/ (2 * r = den /\ q % 2 = 1) THEN q + 1 ELSE q

\* the percentage without min(100.0, max(0.0, ...))
completion_percentage_unclamped(current_index, total) ==
    IF total > 0 THEN round(current_index * 100, total) ELSE 0

\* lines 49-57 and 133-140, the same arithmetic as
\* calculate_completion_percentage, in hundredths of a percent:
\* (current_index / total) * 100, clamped to [0.0, 100.0], then rounded
completion_percentage(current_index, total) ==
    IF total > 0
    THEN LET percentage == current_index * 100      \* over total
             clamped == IF percentage > 100 * total THEN 100 * total
                        ELSE IF percentage < 0 THEN 0 ELSE percentage
         IN  round(clamped, total)
    ELSE 0

\* the checks with "index >= total_alignments" as the bounds check
validate_strict_upper_bound(sub_link_id, index, minutes) ==
    IF index < 0 THEN NegativeIndex
    ELSE IF minutes < 0 THEN NegativeDuration
    ELSE IF sub_link_id \notin SubLinkIds THEN NotFound
    ELSE IF index >= total_alignments(sub_link_id) THEN ExceedsTotal
    ELSE NoError

\* the checks of update_progress, in the order the code makes them
validate(sub_link_id, index, minutes) ==
    IF index < 0 THEN NegativeIndex
    ELSE IF minutes < 0 THEN NegativeDuration
    ELSE IF sub_link_id \notin SubLinkIds THEN NotFound
    ELSE IF index > total_alignments(sub_link_id) THEN ExceedsTotal
    ELSE NoError

\* the update branch without max(): completed follows the index
merge_overwrite_completed(progress, index, minutes, t) ==
    [progress EXCEPT !.current_alignment_index = index,
                     !.session_duration_minutes = @ + minutes,
                     !.last_accessed = t,
                     !.total_alignments_completed = index]

\* the update branch with "=" for "+=" on the minutes
merge_reset_minutes(progress, index, minutes, t) ==
    [progress EXCEPT !.current_alignment_index = index,
                     !.session_duration_minutes = minutes,
                     !.last_accessed = t,
                     !.total_alignments_completed = Max(@, index)]

\* "Update existing progress"
merge(progress, index, minutes, t) ==
    [progress EXCEPT !.current_alignment_index = index,
                     !.session_duration_minutes = @ + minutes,
                     !.last_accessed = t,
                     !.total_alignments_completed = Max(@, index)]

\* the create branch leaving the minutes to the column default
create_without_minutes(user_id, sub_link_id, index, minutes, t) ==
    UserProgress(user_id, sub_link_id, index, index,
                 UserProgressDefaults.session_duration_minutes, t)

\* "Create new progress record"
create(user_id, sub_link_id, index, minutes, t) ==
    UserProgress(user_id, sub_link_id, index, index, minutes, t)

\* a rejection after the index was assigned and flushed
rollback_keeping_index(rs, user_id, sub_link_id, index) ==
    IF first(rs, user_id, sub_link_id) = None THEN rs
    ELSE store_first(rs, user_id, sub_link_id,
                     [first(rs, user_id, sub_link_id)[1]
                        EXCEPT !.current_alignment_index = index])

\* a rejected call: the exception handler rolls back, nothing was pending
rollback(rs, user_id, sub_link_id, index) == rs

update_progress(user_id, sub_link_id, index, minutes) ==
    LET error == validate(sub_link_id, index, minutes)
        progress == first(rows, user_id, sub_link_id)
        key == <<user_id, sub_link_id>>
    IN  IF error # NoError
        THEN /\ rows' = rollback(rows, user_id, sub_link_id, index)
             /\ last' = [op |-> "update_progress", key |-> key, index |-> index,
                         minutes |-> minutes, ok |-> FALSE, error |-> error,
                         pre |-> progress, before |-> rows]
             /\ UNCHANGED <<cache, hits, misses, now, minutesIn, gets, txn, lock, storage>>
        ELSE /\ minutesIn[key] + minutes <= MaxMinutes
             /\ rows' = IF progress # None
                        THEN store_first(rows, user_id, sub_link_id,
                                         merge(progress[1], index, minutes, now))
                        ELSE Append(rows, create(user_id, sub_link_id, index,
                                                 minutes, now))
             /\ minutesIn' = [minutesIn EXCEPT ![key] = @ + minutes]
             /\ last' = [op |-> "update_progress", key |-> key, index |-> index,
                         minutes |-> minutes, ok |-> TRUE, error |-> NoError,
                         pre |-> progress, before |-> <<>>,
                         completion_percentage |->
                             completion_percentage(index,
                                                   total_alignments(sub_link_id))]
             /\ UNCHANGED <<cache, hits, misses, now, gets, txn, lock, storage>>

(***************************************************************************)
(* update_progress of two requests at once. Each request has its own       *)
(* database session: the query of lines 105-108 sees the committed rows,   *)
(* the assignments of lines 110-127 are made to the object that query      *)
(* loaded, and db.session.commit() of line 130 writes them. The table has  *)
(* no unique constraint on (user_id, sub_link_id) and the code takes no    *)
(* lock, so another request may run between the query and the commit.      *)
(***************************************************************************)
Requests == {1, 2}

Idle == [pc |-> "idle"]

\* the minutes of the requests that have read and not yet committed
RECURSIVE pending_minutes(_, _)
pending_minutes(rq, key) ==
    IF rq = {} THEN 0
    ELSE LET r == CHOOSE x \in rq : TRUE
         IN  (IF txn[r].pc = "queried" /\ txn[r].key = key
              THEN txn[r].minutes ELSE 0)
             + pending_minutes(rq \ {r}, key)

\* lines 86-108: the checks pass and the request queries its progress row;
\* pk is the primary key (the place in the table) of the row it loaded
query_progress(r, user_id, sub_link_id, index, minutes) ==
    LET key == <<user_id, sub_link_id>>
    IN  /\ txn[r] = Idle
        /\ validate(sub_link_id, index, minutes) = NoError
        /\ minutesIn[key] + pending_minutes(Requests, key) + minutes <= MaxMinutes
        /\ txn' = [txn EXCEPT ![r] =
                      [pc |-> "queried", key |-> key, index |-> index,
                       minutes |-> minutes,
                       progress |-> first(rows, user_id, sub_link_id),
                       pk |-> IF Matching(rows, user_id, sub_link_id) = {} THEN 0
                              ELSE Min(Matching(rows, user_id, sub_link_id))]]
        /\ UNCHANGED <<cache, hits, misses, now, rows, minutesIn, gets, lock, storage, last>>

\* db.session.commit() for a loaded object: the UPDATE sets the columns
\* whose assigned value differs from the loaded one, and last_accessed,
\* which is assigned an SQL expression; the other columns keep what is stored
flush(stored, loaded, assigned) ==
    [stored EXCEPT
        !.current_alignment_index =
            IF assigned.current_alignment_index # loaded.current_alignment_index
            THEN assigned.current_alignment_index ELSE @,
        !.session_duration_minutes =
            IF assigned.session_duration_minutes # loaded.session_duration_minutes
            THEN assigned.session_duration_minutes ELSE @,
        !.total_alignments_completed =
            IF assigned.total_alignments_completed
                   # loaded.total_alignments_completed
            THEN assigned.total_alignments_completed ELSE @,
        !.last_accessed = assigned.last_accessed]

\* lines 110-130: the loaded object is changed and written by its primary
\* key, or a new row is inserted when the query had found none
commit_progress(r) ==
    LET t == txn[r]
    IN  /\ t.pc = "queried"
        /\ rows' = IF t.progress # None
                   THEN [rows EXCEPT ![t.pk] =
                            flush(@, t.progress[1],
                                  merge(t.progress[1], t.index, t.minutes, now))]
                   ELSE Append(rows, create(t.key[1], t.key[2], t.index,
                                            t.minutes, now))
        /\ minutesIn' = [minutesIn EXCEPT ![t.key] = @ + t.minutes]
        /\ txn' = [txn EXCEPT ![r] = Idle]
        /\ last' = [op |-> "update_progress", key |-> t.key, index |-> t.index,
                    minutes |-> t.minutes, ok |-> TRUE, error |-> NoError,
                    pre |-> t.progress, before |-> <<>>,
                    completion_percentage |->
                        completion_percentage(t.index, total_alignments(t.key[2]))]
        /\ UNCHANGED <<cache, hits, misses, now, gets, lock, storage>>

\* returns None when the user has no progress for the link; prev is what
\* the call before it returned, when that was an accepted update_progress
\* of the same key
get_user_progress(user_id, sub_link_id) ==
    /\ last' = [op |-> "get_user_progress", key |-> <<user_id, sub_link_id>>,
                ok |-> sub_link_id \in SubLinkIds,
                error |-> IF sub_link_id \in SubLinkIds THEN NoError ELSE NotFound,
                pre |-> first(rows, user_id, sub_link_id),
                result |-> IF sub_link_id \in SubLinkIds
                           THEN first(rows, user_id, sub_link_id) ELSE None,
                completion_percentage |->
                    IF sub_link_id \in SubLinkIds
                       /\ first(rows, user_id, sub_link_id) # None
                    THEN Some(completion_percentage(
                                 first(rows, user_id, sub_link_id)[1]
                                     .current_alignment_index,
                                 total_alignments(sub_link_id)))
                    ELSE None,
                prev |-> IF /\ last.op = "update_progress"
                            /\ last.ok
                            /\ last.key = <<user_id, sub_link_id>>
                         THEN Some([index |-> last.index,
                                    completion_percentage |->
                                        last.completion_percentage])
                         ELSE None]
    /\ UNCHANGED <<cache, hits, misses, now, rows, minutesIn, gets, txn, lock, storage>>

(***************************************************************************)
(* The progress handlers of the subtitles blueprint                        *)
(***************************************************************************)

\* every user of UserIds studies the language pair of links 1 and 2
verify_sub_link_access(user_id, sub_link_id) == sub_link_id \in SubLinkIds

\* GET /api/progress/<sub_link_id>: "Create new progress entry if none exists"
subtitles_get_user_progress(user_id, sub_link_id) ==
    LET progress == first(rows, user_id, sub_link_id)
        created == UserProgress(user_id, sub_link_id, 0,
                                UserProgressDefaults.total_alignments_completed,
                                UserProgressDefaults.session_duration_minutes, now)
        key == <<user_id, sub_link_id>>
    IN  IF ~verify_sub_link_access(user_id, sub_link_id)
        THEN /\ last' = [op |-> "subtitles_get_user_progress", key |-> key,
                         ok |-> FALSE, error |-> "ACCESS_DENIED",
                         pre |-> progress, result |-> None]
             /\ UNCHANGED <<cache, hits, misses, now, rows, minutesIn, gets, txn, lock, storage>>
        ELSE /\ rows' = IF progress = None THEN Append(rows, created) ELSE rows
             /\ last' = [op |-> "subtitles_get_user_progress", key |-> key,
                         ok |-> TRUE, error |-> NoError, pre |-> progress,
                         result |-> IF progress = None THEN Some(created)
                                    ELSE progress]
             /\ UNCHANGED <<cache, hits, misses, now, minutesIn, gets, txn, lock, storage>>

\* PUT /api/progress/<sub_link_id>: the read, the write and the commit inside
\* "with db.session.begin()", taken to open its transaction; no comparison of
\* new_index with the number of alignments is made
subtitles_update_user_progress(user_id, sub_link_id, new_index) ==
    LET progress == first(rows, user_id, sub_link_id)
        created == UserProgress(user_id, sub_link_id, new_index,
                                UserProgressDefaults.total_alignments_completed,
                                UserProgressDefaults.session_duration_minutes, now)
        key == <<user_id, sub_link_id>>
    IN  IF ~verify_sub_link_access(user_id, sub_link_id) \/ new_index < 0
        THEN /\ last' = [op |-> "subtitles_update_user_progress", key |-> key,
                         index |-> new_index, ok |-> FALSE,
                         error |-> IF new_index < 0
                                      /\ verify_sub_link_access(user_id, sub_link_id)
                                   THEN "INVALID_ALIGNMENT_INDEX"
                                   ELSE "ACCESS_DENIED",
                         pre |-> progress]
             /\ UNCHANGED <<cache, hits, misses, now, rows, minutesIn, gets, txn, lock, storage>>
        ELSE /\ rows' = IF progress = None THEN Append(rows, created)
                        ELSE store_first(rows, user_id, sub_link_id,
                                         [progress[1] EXCEPT
                                            !.current_alignment_index = new_index,
                                            !.last_accessed = now])
             /\ last' = [op |-> "subtitles_update_user_progress", key |-> key,
                         index |-> new_index, ok |-> TRUE, error |-> NoError,
                         pre |-> progress]
             /\ UNCHANGED <<cache, hits, misses, now, minutesIn, gets, txn, lock, storage>>

(***************************************************************************)
(* SubtitleService: app/services/subtitle_service.py                       *)
(***************************************************************************)

\* What the database answers to one call: to _movie_exists, to
\* _language_exists and to the query of sub_lines. "error" is an
\* SQLAlchemyError; the rows may differ from one query to the next.
SourceReply(movie, language, query, content) ==
    [movie |-> movie, language |-> language, query |-> query, content |-> content]

SourceReplies ==
    {SourceReply("found", "found", "rows", c) : c \in {"v1", "v2"}} \cup
    {SourceReply(m, "found", "rows", "") : m \in {"missing", "error"}} \cup
    {SourceReply("found", l, "rows", "") : l \in {"missing", "error"}} \cup
    {SourceReply("found", "found", "error", "")}

MovieNotFound == "Movie not found"
LanguageNotFound == "Language not found"
DatabaseError == "Database error while fetching subtitles"

\* lines 41-82: what the try block raises; _movie_exists and _language_exists
\* answer False when their query raises
fetch_error(reply) ==
    IF reply.movie # "found" THEN MovieNotFound
    ELSE IF reply.language # "found" THEN LanguageNotFound
    ELSE IF reply.query = "error" THEN DatabaseError
    ELSE NoError

\* the first of the three queries that the database failed, "none" if none
SourceFailed(reply) ==
    IF reply.movie = "error" THEN "movie"
    ELSE IF reply.movie # "found" THEN "none"
    ELSE IF reply.language = "error" THEN "language"
    ELSE IF reply.language # "found" THEN "none"
    ELSE IF reply.query = "error" THEN "query"
    ELSE "none"

\* the cache as subtitle_cache.get leaves it: an expired entry is deleted
cache_after_get(c, key, t) ==
    IF key \in CacheKeys(c) /\ is_expired(Entry(c, key).expiry, t)
    THEN dict_del(c, {key}) ELSE c

\* the cache as subtitle_cache.set(movie_id, language_id, subtitles) leaves it
cache_after_set(c, key, content, t) ==
    enforce_size_limit(evict_expired(dict_store(c, key, content, t + default_ttl), t))

\* a fetch that caches what it has, the empty list of a failed try included
store_fetched_in_finally(c, key, reply, t) ==
    cache_after_set(c, key, reply.content, t)

\* a fetch that returns the rows without caching them
store_fetched_nowhere(c, key, reply, t) == c

\* line 75 is reached only when nothing was raised
store_fetched(c, key, reply, t) ==
    IF fetch_error(reply) = NoError
    THEN cache_after_set(c, key, reply.content, t)
    ELSE c

\* movie_id and language_id are not 0 or None (line 32). prev is what the
\* call before it returned, when that was a successful call for the same
\* key: its result, whether it asked the database, and whether the expiry of
\* the entry it served or stored has passed by now.
get_subtitle_content(movie_id, language_id, reply) ==
    LET key == generate_key(movie_id, language_id)
        found == key \in CacheKeys(cache)
        hit == found /\ ~is_expired(Entry(cache, key).expiry, now)
        error == fetch_error(reply)
        prev == IF /\ last.op = "get_subtitle_content"
                   /\ last.key = key
                   /\ last.ok
                THEN Some([result |-> last.result, queried |-> last.queried,
                           live |-> ~is_expired(last.expiry, now)])
                ELSE None
    IN  /\ gets < MaxCalls
        /\ gets' = gets + 1
        /\ IF hit
           THEN /\ hits' = hits + 1
                /\ UNCHANGED <<cache, misses>>
                /\ last' = [op |-> "get_subtitle_content", key |-> key,
                            ok |-> TRUE, error |-> NoError,
                            result |-> Some(Entry(cache, key).content),
                            queried |-> FALSE, failed |-> "none",
                            stale |-> FALSE,
                            expiry |-> Entry(cache, key).expiry, prev |-> prev]
           ELSE /\ misses' = misses + 1
                /\ UNCHANGED hits
                /\ cache' = store_fetched(cache_after_get(cache, key, now),
                                          key, reply, now)
                /\ last' = [op |-> "get_subtitle_content", key |-> key,
                            ok |-> error = NoError, error |-> error,
                            result |-> IF error = NoError
                                       THEN Some(reply.content) ELSE None,
                            queried |-> TRUE, failed |-> SourceFailed(reply),
                            stale |-> found,
                            expiry |-> now + default_ttl, prev |-> prev]
        /\ UNCHANGED <<now, rows, minutesIn, txn, lock, storage>>

invalidate_cache(movie_id, language_id) == invalidate(movie_id, language_id)

(***************************************************************************)
(* GET /api/subtitles/<sub_link_id>/alignments (blueprints/api/subtitles)  *)
(***************************************************************************)

\* A JSON value of link_data, with what isinstance(..., list) says of it:
\* an item is one half of an alignment, an element one alignment
Item(is_list, ids) == [list |-> is_list, ids |-> ids]
Element(is_list, items) == [list |-> is_list, items |-> items]

\* the value of the column link_data: a list of elements, a dict or null
Payload(kind, elems) == [kind |-> kind, elems |-> elems]

\* [[source_line_ids], [target_line_ids]] of the i-th of n alignments
Pair(i, n) == Element(TRUE, <<Item(TRUE, <<i>>), Item(TRUE, <<n + i>>)>>)

PairsPayload(n) == Payload("list", [i \in 1..n |-> Pair(i, n)])

\* elements that are no pair of id lists: a string, a list of one list, a
\* list of three lists, a pair whose first half is a string
BadElements ==
    {Element(FALSE, <<>>),
     Element(TRUE, <<Item(TRUE, <<1>>)>>),
     Element(TRUE, <<Item(TRUE, <<1>>), Item(TRUE, <<2>>), Item(TRUE, <<3>>)>>),
     Element(TRUE, <<Item(FALSE, <<>>), Item(TRUE, <<2>>)>>)}

\* the payloads a row of sub_link_lines may hold: 0 to MaxPairs pairs,
\* MaxPairs pairs with a bad element in place of the second, a dict, null
Payloads ==
    {PairsPayload(n) : n \in 0..MaxPairs} \cup
    {Payload("list", [PairsPayload(MaxPairs).elems EXCEPT ![2] = e]) :
        e \in BadElements} \cup
    {Payload("dict", <<>>), Payload("null", <<>>)}

\* not link_data: None and the empty list are falsy, the dict here is not empty
falsy(payload) ==
    payload.kind = "null" \/ (payload.kind = "list" /\ payload.elems = <<>>)

\* limit = min(int(...), 50)
max_limit == 50

\* the loop of lines 367-374 over link_data[start_index:end_index]: i counts
\* from 0, an element that is no list of two or more is left out
RECURSIVE formatted_alignments(_, _, _)
formatted_alignments(paginated, start_index, i) ==
    IF i >= Len(paginated) THEN <<>>
    ELSE LET alignment == paginated[i + 1]
         IN  (IF alignment.list /\ Len(alignment.items) >= 2
              THEN <<[index |-> start_index + i,
                      source_lines |-> IF alignment.items[1].list
                                       THEN alignment.items[1].ids ELSE <<>>,
                      target_lines |-> IF alignment.items[2].list
                                       THEN alignment.items[2].ids ELSE <<>>]>>
              ELSE <<>>)
             \o formatted_alignments(paginated, start_index, i + 1)

\* the ids of one half of an alignment, none when the half is no list
half_ids(alignment, h) ==
    IF alignment.items[h].list
    THEN {alignment.items[h].ids[j] : j \in 1..Len(alignment.items[h].ids)}
    ELSE {}

\* the ids of the source halves alone
all_line_ids_sources_only(paginated) ==
    UNION {half_ids(paginated[i], 1) :
             i \in {k \in 1..Len(paginated) :
                      paginated[k].list /\ Len(paginated[k].items) >= 2}}

\* the ids of lines 347-358: source_line_ids.union(target_line_ids)
all_line_ids(paginated) ==
    UNION {half_ids(paginated[i], 1) \cup half_ids(paginated[i], 2) :
             i \in {k \in 1..Len(paginated) :
                      paginated[k].list /\ Len(paginated[k].items) >= 2}}

\* lookups: how many queries of sub_lines the call made, and lookup_ids the
\* ids the query asked for; subtitle_lines: the keys of the map returned
Response(status, code, alignments, total, has_more, lookups, lookup_ids, subtitle_lines) ==
    [status |-> status, code |-> code, alignments |-> alignments,
     total_alignments |-> total, has_more |-> has_more, lookups |-> lookups,
     lookup_ids |-> lookup_ids, subtitle_lines |-> subtitle_lines]

Failure(status, code) == Response(status, code, <<>>, 0, FALSE, 0, {}, {})

\* lines 341-387: the page of a payload that passed the check of line 335;
\* SubLine.query...in_(all_line_ids) runs once when there are ids and
\* returns the lines of table sub_lines (its ids: sub_lines) that have one
\* of them
page(payload, start_index, limit, sub_lines) ==
    LET total == Len(payload.elems)
        end_index == IF start_index + limit < total
                     THEN start_index + limit ELSE total
        paginated == SubSeq(payload.elems, start_index + 1, end_index)
        ids == all_line_ids(paginated)
    IN  Response(200, "OK", formatted_alignments(paginated, start_index, 0),
                 total, end_index < total,
                 IF ids = {} THEN 0 ELSE 1, ids, ids \cap sub_lines)

\* what the handler answers; row is the row of sub_link_lines for the link:
\* None or Some(payload)
alignments_response(user_id, sub_link_id, row, sub_lines, start_index, limit_arg) ==
    LET limit == IF limit_arg < max_limit THEN limit_arg ELSE max_limit
    IN  IF sub_link_id <= 0 THEN Failure(400, "INVALID_SUB_LINK_ID")
        ELSE IF ~verify_sub_link_access(user_id, sub_link_id)
        THEN Failure(403, "ACCESS_DENIED")
        ELSE IF start_index < 0 \/ limit <= 0
        THEN Failure(400, "INVALID_PAGINATION_PARAMETERS")
        ELSE IF row = None THEN Failure(404, "ALIGNMENTS_NOT_FOUND")
        ELSE IF falsy(row[1]) \/ row[1].kind # "list"
        THEN Failure(500, "INVALID_ALIGNMENT_DATA")
        ELSE page(row[1], start_index, limit, sub_lines)

get_subtitle_alignments(user_id, sub_link_id, row, sub_lines, start_index, limit_arg) ==
    LET response == alignments_response(user_id, sub_link_id, row, sub_lines,
                                        start_index, limit_arg)
    IN  /\ last' = [op |-> "get_subtitle_alignments", sub_link_id |-> sub_link_id,
                    row |-> row, sub_lines |-> sub_lines,
                    start_index |-> start_index,
                    limit |-> limit_arg, response |-> response]
        /\ UNCHANGED <<cache, hits, misses, now, rows, minutesIn, gets, txn, lock, storage>>

\* A client that reads link 1, an alignment set of total pairs, page after
\* page with one limit: its first request is for start_index 0 ...
client_first_page(user_id, total, limit) ==
    LET response == alignments_response(user_id, 1, Some(PairsPayload(total)),
                                        1..(2 * total), 0, limit)
    IN  /\ last' = [op |-> "client", user_id |-> user_id, total |-> total,
                    limit |-> limit, start_index |-> 0, requests |-> 1,
                    status |-> response.status,
                    has_more |-> response.has_more,
                    received |-> [i \in 1..Len(response.alignments) |->
                                     response.alignments[i].index]]
        /\ UNCHANGED <<cache, hits, misses, now, rows, minutesIn, gets, txn, lock, storage>>

\* ... and while has_more is true, its next one for start_index + limit
client_next_page ==
    LET start_index == last.start_index + last.limit
        response == alignments_response(last.user_id, 1,
                                        Some(PairsPayload(last.total)),
                                        1..(2 * last.total), start_index,
                                        last.limit)
    IN  /\ last.op = "client"
        /\ last.has_more
        /\ last' = [last EXCEPT
                      !.start_index = start_index,
                      !.requests = @ + 1,
                      !.status = response.status,
                      !.has_more = response.has_more,
                      !.received = @ \o [i \in 1..Len(response.alignments) |->
                                            response.alignments[i].index]]
        /\ UNCHANGED <<cache, hits, misses, now, rows, minutesIn, gets, txn, lock, storage>>

(***************************************************************************)
(* SessionAnalyticsService.calculate_learning_streak                       *)
(***************************************************************************)

\* last_accessed values: a calendar day (counted from some day 0) and the
\* time of day
Datetimes == [day : 0..MaxDay, time : {"am", "pm"}]

\* datetime.date()
date(datetime) == datetime.day

\* sorted(activity_dates, reverse=True) of a set of days
RECURSIVE sorted_reverse(_)
sorted_reverse(S) ==
    IF S = {} THEN <<>>
    ELSE LET d == CHOOSE x \in S : \A y \in S : y <= x
         IN  <<d>> \o sorted_reverse(S \ {d})

\* the loop without its test of expected_date: every remaining day counts
count_backwards_all(activity_dates, i, current_streak) ==
    current_streak + (Len(activity_dates) - i)

\* "Count consecutive days backwards": the loop from index i (from 0) on
RECURSIVE count_backwards(_, _, _)
count_backwards(activity_dates, i, current_streak) ==
    IF i >= Len(activity_dates) THEN current_streak
    ELSE IF activity_dates[i + 1] = activity_dates[1] - i
    THEN count_backwards(activity_dates, i + 1, current_streak + 1)
    ELSE current_streak

\* lines 309-324, for a list that is not empty
current_streak(activity_dates, today) ==
    IF activity_dates[1] >= today - 1
    THEN count_backwards(activity_dates, 1, 1)
    ELSE 0

\* the loop without line 337: the run still open when the list ends (the
\* oldest one) is never compared with longest_streak
RECURSIVE longest_streak_without_final_max(_, _, _, _)
longest_streak_without_final_max(activity_dates, i, longest, temp_streak) ==
    IF i >= Len(activity_dates) THEN longest
    ELSE IF activity_dates[i] - activity_dates[i + 1] = 1
    THEN longest_streak_without_final_max(activity_dates, i + 1, longest,
                                          temp_streak + 1)
    ELSE longest_streak_without_final_max(activity_dates, i + 1,
                                          Max(longest, temp_streak), 1)

\* lines 326-337: the loop from index i on, with longest_streak and temp_streak
RECURSIVE longest_streak(_, _, _, _)
longest_streak(activity_dates, i, longest, temp_streak) ==
    IF i >= Len(activity_dates) THEN Max(longest, temp_streak)
    ELSE IF activity_dates[i] - activity_dates[i + 1] = 1
    THEN longest_streak(activity_dates, i + 1, longest, temp_streak + 1)
    ELSE longest_streak(activity_dates, i + 1, Max(longest, temp_streak), 1)

\* progress_records: the last_accessed values of the user's rows
calculate_learning_streak(user_id, progress_records, today) ==
    LET activity_dates == sorted_reverse({date(t) : t \in progress_records})
        current == current_streak(activity_dates, today)
        result ==
            IF progress_records = {}
            THEN [current_streak |-> 0, longest_streak |-> 0,
                  last_activity_date |-> None, streak_start_date |-> None]
            ELSE [current_streak |-> current,
                  longest_streak |-> longest_streak(activity_dates, 1, 0, 1),
                  last_activity_date |-> Some(activity_dates[1]),
                  streak_start_date |->
                      IF current > 0
                      THEN Some(activity_dates[
                                  IF current - 1 < Len(activity_dates) - 1
                                  THEN current ELSE Len(activity_dates)])
                      ELSE None]
    IN  /\ last' = [op |-> "calculate_learning_streak", user_id |-> user_id,
                    progress_records |-> progress_records, today |-> today,
                    result |-> result]
        /\ UNCHANGED <<cache, hits, misses, now, rows, minutesIn, gets, txn, lock, storage>>

(***************************************************************************)
(* SessionAnalyticsService.get_dashboard_statistics                        *)
(***************************************************************************)

\* UserProgress.query.filter_by(user_id=user_id).all()
filter_by_user(rs, user_id) == SelectSeq(rs, LAMBDA p : p.user_id = user_id)

\* sum(...) over the records
RECURSIVE total_study_minutes(_)
total_study_minutes(progress_records) ==
    IF progress_records = <<>> THEN 0
    ELSE Head(progress_records).session_duration_minutes
         + total_study_minutes(Tail(progress_records))

RECURSIVE total_alignments_sum(_)
total_alignments_sum(progress_records) ==
    IF progress_records = <<>> THEN 0
    ELSE Head(progress_records).total_alignments_completed
         + total_alignments_sum(Tail(progress_records))

\* "Arbitrary threshold" of line 81
completed_threshold == 50

\* line 81
movies_completed(progress_records) ==
    Cardinality({i \in 1..Len(progress_records) :
        progress_records[i].total_alignments_completed > completed_threshold})

\* lines 77-78
active_sessions(progress_records) ==
    Cardinality({i \in 1..Len(progress_records) :
        progress_records[i].current_alignment_index > 0})

\* the statistics returned when the user has no record
EmptyStatistics ==
    [total_study_minutes |-> 0, movies_completed |-> 0, total_alignments |-> 0,
     current_streak |-> 0, completion_rate |-> 0, avg_session_duration |-> 0,
     learning_velocity |-> 0, active_sessions |-> 0, total_sessions |-> 0]

\* lines 49-103; the three rounded values are in hundredths. A clock unit is
\* one day here: the day of a record is its last_accessed.
dashboard_statistics(progress_records, today) ==
    LET minutes == total_study_minutes(progress_records)
        alignments == total_alignments_sum(progress_records)
        total_sessions == Len(progress_records)
        days == {progress_records[i].last_accessed :
                    i \in 1..Len(progress_records)}
    IN  [total_study_minutes |-> minutes,
         movies_completed |-> movies_completed(progress_records),
         total_alignments |-> alignments,
         current_streak |-> current_streak(sorted_reverse(days), today),
         completion_rate |->
             round(movies_completed(progress_records) * 100, total_sessions),
         avg_session_duration |-> round(minutes, total_sessions),
         learning_velocity |->
             IF minutes > 0 THEN round(alignments * 60, minutes) ELSE 0,
         active_sessions |-> active_sessions(progress_records),
         total_sessions |-> total_sessions]

\* scalar_ok: whether the nested select of lines 60-74, made once for each
\* record and whose value is not used, is evaluated without an exception;
\* any exception becomes a SessionAnalyticsServiceError (lines 104-107)
get_dashboard_statistics(user_id, today, scalar_ok) ==
    LET progress_records == filter_by_user(rows, user_id)
    IN  /\ last' =
              IF progress_records = <<>>
              THEN [op |-> "get_dashboard_statistics", user_id |-> user_id,
                    ok |-> TRUE, result |-> EmptyStatistics]
              ELSE IF ~scalar_ok
              THEN [op |-> "get_dashboard_statistics", user_id |-> user_id,
                    ok |-> FALSE, result |-> EmptyStatistics]
              ELSE [op |-> "get_dashboard_statistics", user_id |-> user_id,
                    ok |-> TRUE,
                    result |-> dashboard_statistics(progress_records, today)]
        /\ UNCHANGED <<cache, hits, misses, now, rows, minutesIn, gets, txn, lock, storage>>

(***************************************************************************)
(* SubtitleCache called by the threads of two requests at once. A call     *)
(* computes what it can before "with self._lock", waits for the lock, and  *)
(* runs the statements of the with block one step at a time; leaving the   *)
(* block releases the lock. txn[r] is where the call of thread r stands.   *)
(***************************************************************************)

\* a with statement that enters although another thread holds the lock
acquire_without_waiting == lock' = TRUE

\* with self._lock: entered only when no thread holds the lock
acquire == ~lock /\ lock' = TRUE

\* the end of the with block
release == lock' = FALSE

\* the first statement of the with block of each method
first_statement(op) ==
    CASE op = "get" -> "lookup"
      [] op = "set" -> "store"
      [] op = "invalidate" -> "delete"
      [] op = "clear" -> "clear"
      [] op = "get_stats" -> "total"
      [] op = "warm_cache" -> "fill"

\* line 75, 104, 119, 136, 149, 170
with_lock(r) ==
    /\ txn[r].pc = "with"
    /\ acquire
    /\ txn' = [txn EXCEPT ![r].pc = first_statement(txn[r].op)]
    /\ UNCHANGED <<cache, hits, misses, now, rows, minutesIn, gets, storage, last>>

\* line 73
get_enter(r, movie_id, language_id) ==
    /\ txn[r] = Idle
    /\ gets < MaxCalls
    /\ txn' = [txn EXCEPT ![r] =
                  [pc |-> "with", op |-> "get",
                   key |-> generate_key(movie_id, language_id)]]
    /\ UNCHANGED <<cache, hits, misses, now, rows, minutesIn, gets, lock, storage, last>>

\* lines 76, 80, 82: which of the three branches the call takes
get_lookup(r) ==
    LET key == txn[r].key
    IN  /\ txn[r].pc = "lookup"
        /\ txn' = [txn EXCEPT ![r] =
                      [pc |-> IF key \notin CacheKeys(cache) THEN "miss"
                              ELSE IF is_expired(Entry(cache, key).expiry, now)
                              THEN "expired" ELSE "hit",
                       op |-> "get", key |-> key,
                       content |-> IF key \in CacheKeys(cache)
                                   THEN Some(Entry(cache, key).content)
                                   ELSE None]]
        /\ UNCHANGED <<cache, hits, misses, now, rows, minutesIn, gets, lock,
                       storage, last>>

\* line 83
get_delete(r) ==
    /\ txn[r].pc = "expired"
    /\ cache' = dict_del(cache, {txn[r].key})
    /\ txn' = [txn EXCEPT ![r].pc = "miss", ![r].content = None]
    /\ UNCHANGED <<hits, misses, now, rows, minutesIn, gets, lock, storage, last>>

\* lines 77, 84, 87: "+= 1" reads the counter ...
get_read_counter(r) ==
    /\ txn[r].pc \in {"miss", "hit"}
    /\ txn' = [txn EXCEPT ![r] =
                  [pc |-> "count", op |-> "get", key |-> txn[r].key,
                   content |-> txn[r].content,
                   counter |-> txn[r].pc,
                   read |-> IF txn[r].pc = "miss" THEN misses ELSE hits]]
    /\ UNCHANGED <<cache, hits, misses, now, rows, minutesIn, gets, lock, storage, last>>

\* ... and writes it one higher; then the call returns (lines 78, 85, 88)
get_return(r) ==
    /\ txn[r].pc = "count"
    /\ IF txn[r].counter = "miss"
       THEN misses' = txn[r].read + 1 /\ UNCHANGED hits
       ELSE hits' = txn[r].read + 1 /\ UNCHANGED misses
    /\ gets' = gets + 1
    /\ release
    /\ txn' = [txn EXCEPT ![r] = Idle]
    /\ last' = [op |-> "get", thread |-> r, result |-> txn[r].content]
    /\ UNCHANGED <<cache, now, rows, minutesIn, storage>>

\* lines 100-102: the expiry is computed before the lock is taken
set_enter(r, movie_id, language_id, content, ttl_arg) ==
    /\ txn[r] = Idle
    /\ txn' = [txn EXCEPT ![r] =
                  [pc |-> "with", op |-> "set",
                   key |-> generate_key(movie_id, language_id),
                   content |-> content,
                   expiry |-> now + (IF ttl_arg = 0 THEN default_ttl
                                     ELSE ttl_arg)]]
    /\ UNCHANGED <<cache, hits, misses, now, rows, minutesIn, gets, lock, storage, last>>

\* line 105
set_store(r) ==
    /\ txn[r].pc = "store"
    /\ cache' = dict_store(cache, txn[r].key, txn[r].content, txn[r].expiry)
    /\ txn' = [txn EXCEPT ![r].pc = "evict"]
    /\ UNCHANGED <<hits, misses, now, rows, minutesIn, gets, lock, storage, last>>

\* line 106
set_evict_expired(r) ==
    /\ txn[r].pc = "evict"
    /\ cache' = evict_expired(cache, now)
    /\ txn' = [txn EXCEPT ![r].pc = "enforce"]
    /\ UNCHANGED <<hits, misses, now, rows, minutesIn, gets, lock, storage, last>>

\* line 107, and the end of the with block
set_enforce_size_limit(r) ==
    /\ txn[r].pc = "enforce"
    /\ cache' = enforce_size_limit(cache)
    /\ release
    /\ txn' = [txn EXCEPT ![r] = Idle]
    /\ last' = [op |-> "set", thread |-> r, result |-> None]
    /\ UNCHANGED <<hits, misses, now, rows, minutesIn, gets, storage>>

invalidate_enter(r, movie_id, language_id) ==
    /\ txn[r] = Idle
    /\ txn' = [txn EXCEPT ![r] =
                  [pc |-> "with", op |-> "invalidate",
                   movie_id |-> movie_id, language_id |-> language_id]]
    /\ UNCHANGED <<cache, hits, misses, now, rows, minutesIn, gets, lock, storage, last>>

\* lines 120-131
invalidate_delete(r) ==
    LET prefix == <<"subtitles", ":">> \o str(txn[r].movie_id) \o <<":">>
        keys_to_remove ==
            IF txn[r].language_id # None
            THEN {generate_key(txn[r].movie_id, txn[r].language_id[1])}
            ELSE {k \in CacheKeys(cache) : IsPrefix(prefix, k)}
    IN  /\ txn[r].pc = "delete"
        /\ cache' = dict_del(cache, keys_to_remove)
        /\ release
        /\ txn' = [txn EXCEPT ![r] = Idle]
        /\ last' = [op |-> "invalidate", thread |-> r, result |-> None]
        /\ UNCHANGED <<hits, misses, now, rows, minutesIn, gets, storage>>

clear_enter(r) ==
    /\ txn[r] = Idle
    /\ txn' = [txn EXCEPT ![r] = [pc |-> "with", op |-> "clear"]]
    /\ UNCHANGED <<cache, hits, misses, now, rows, minutesIn, gets, lock, storage, last>>

\* line 137
clear_map(r) ==
    /\ txn[r].pc = "clear"
    /\ cache' = <<>>
    /\ txn' = [txn EXCEPT ![r].pc = "reset"]
    /\ UNCHANGED <<hits, misses, now, rows, minutesIn, gets, lock, storage, last>>

\* lines 138-139
clear_counters(r) ==
    /\ txn[r].pc = "reset"
    /\ hits' = 0
    /\ misses' = 0
    /\ gets' = 0
    /\ release
    /\ txn' = [txn EXCEPT ![r] = Idle]
    /\ last' = [op |-> "clear", thread |-> r, result |-> None]
    /\ UNCHANGED <<cache, now, rows, minutesIn, storage>>

get_stats_enter(r) ==
    /\ txn[r] = Idle
    /\ txn' = [txn EXCEPT ![r] = [pc |-> "with", op |-> "get_stats"]]
    /\ UNCHANGED <<cache, hits, misses, now, rows, minutesIn, gets, lock, storage, last>>

\* lines 150-151; the rate is in hundredths of a percent
get_stats_total(r) ==
    /\ txn[r].pc = "total"
    /\ txn' = [txn EXCEPT ![r] =
                  [pc |-> "stats", op |-> "get_stats",
                   total_requests |-> hits + misses,
                   hit_rate_percent |-> IF hits + misses > 0
                                        THEN round(hits * 100, hits + misses)
                                        ELSE 0]]
    /\ UNCHANGED <<cache, hits, misses, now, rows, minutesIn, gets, lock, storage, last>>

\* lines 153-161
get_stats_return(r) ==
    /\ txn[r].pc = "stats"
    /\ release
    /\ txn' = [txn EXCEPT ![r] = Idle]
    /\ last' = [op |-> "get_stats", thread |-> r,
                result |-> Some([hits |-> hits, misses |-> misses,
                                 total_requests |-> txn[r].total_requests,
                                 hit_rate_percent |-> txn[r].hit_rate_percent,
                                 cache_size |-> Len(cache),
                                 max_size |-> max_size,
                                 default_ttl |-> default_ttl])]
    /\ UNCHANGED <<cache, hits, misses, now, rows, minutesIn, gets, storage>>

warm_cache_enter(r, subtitle_data) ==
    /\ txn[r] = Idle
    /\ txn' = [txn EXCEPT ![r] =
                  [pc |-> "with", op |-> "warm_cache",
                   subtitle_data |-> subtitle_data, i |-> 1]]
    /\ UNCHANGED <<cache, hits, misses, now, rows, minutesIn, gets, lock, storage, last>>

\* lines 171-174: one item of the loop
warm_cache_store(r) ==
    LET item == txn[r].subtitle_data[txn[r].i]
    IN  /\ txn[r].pc = "fill"
        /\ txn[r].i <= Len(txn[r].subtitle_data)
        /\ cache' = dict_store(cache,
                               generate_key(item.movie_id, item.language_id),
                               item.content, now + default_ttl)
        /\ txn' = [txn EXCEPT ![r].i = @ + 1]
        /\ UNCHANGED <<hits, misses, now, rows, minutesIn, gets, lock, storage, last>>

\* the loop is over
warm_cache_return(r) ==
    /\ txn[r].pc = "fill"
    /\ txn[r].i > Len(txn[r].subtitle_data)
    /\ release
    /\ txn' = [txn EXCEPT ![r] = Idle]
    /\ last' = [op |-> "warm_cache", thread |-> r, result |-> None]
    /\ UNCHANGED <<cache, hits, misses, now, rows, minutesIn, gets, storage>>

(***************************************************************************)
(* SubtitleService.get_subtitle_content of two requests at once, with      *)
(* invalidate_cache. The calls of subtitle_cache are atomic (they hold its *)
(* lock); between its get, its queries and its set a request holds no      *)
(* lock. The field outdated of a request that has read the database notes  *)
(* whether its key has been invalidated since.                             *)
(***************************************************************************)

\* lines 32-38: subtitle_cache.get; a hit returns, a miss goes on to the
\* database
content_get(r, movie_id, language_id) ==
    LET key == generate_key(movie_id, language_id)
        hit == /\ key \in CacheKeys(cache)
               /\ ~is_expired(Entry(cache, key).expiry, now)
    IN  /\ txn[r] = Idle
        /\ gets < MaxCalls
        /\ gets' = gets + 1
        /\ IF hit
           THEN /\ hits' = hits + 1
                /\ UNCHANGED <<cache, misses, txn>>
                /\ last' = [op |-> "get_subtitle_content", key |-> key,
                            ok |-> TRUE,
                            result |-> Some(Entry(cache, key).content),
                            stored |-> FALSE, outdated |-> FALSE]
           ELSE /\ misses' = misses + 1
                /\ cache' = cache_after_get(cache, key, now)
                /\ txn' = [txn EXCEPT ![r] =
                              [pc |-> "missed", movie_id |-> movie_id,
                               language_id |-> language_id, key |-> key]]
                /\ UNCHANGED <<hits, last>>
        /\ UNCHANGED <<now, rows, minutesIn, lock, storage>>

\* lines 41-72 and 80-82: the three queries; what they raise ends the call
content_query(r, reply) ==
    /\ txn[r].pc = "missed"
    /\ IF fetch_error(reply) # NoError
       THEN /\ txn' = [txn EXCEPT ![r] = Idle]
            /\ last' = [op |-> "get_subtitle_content", key |-> txn[r].key,
                        ok |-> FALSE, result |-> None,
                        stored |-> FALSE, outdated |-> FALSE]
       ELSE /\ txn' = [txn EXCEPT ![r] =
                          [pc |-> "fetched", movie_id |-> txn[r].movie_id,
                           language_id |-> txn[r].language_id,
                           key |-> txn[r].key, reply |-> reply,
                           outdated |-> FALSE]]
            /\ UNCHANGED last
    /\ UNCHANGED <<cache, hits, misses, now, rows, minutesIn, gets, lock, storage>>

\* lines 75-78: subtitle_cache.set of what the queries returned
content_set(r) ==
    /\ txn[r].pc = "fetched"
    /\ cache' = store_fetched(cache, txn[r].key, txn[r].reply, now)
    /\ txn' = [txn EXCEPT ![r] = Idle]
    /\ last' = [op |-> "get_subtitle_content", key |-> txn[r].key,
                ok |-> TRUE, result |-> Some(txn[r].reply.content),
                stored |-> TRUE, outdated |-> txn[r].outdated]
    /\ UNCHANGED <<hits, misses, now, rows, minutesIn, gets, lock, storage>>

\* line 192: subtitle_cache.invalidate, by a request that has no call of
\* get_subtitle_content under way
content_invalidate(movie_id, language_id) ==
    LET prefix == <<"subtitles", ":">> \o str(movie_id) \o <<":">>
        invalidated(key) ==
            IF language_id # None
            THEN key = generate_key(movie_id, language_id[1])
            ELSE IsPrefix(prefix, key)
    IN  /\ cache' = dict_del(cache, {k \in CacheKeys(cache) : invalidated(k)})
        /\ txn' = [r \in Requests |->
                      IF txn[r].pc = "fetched" /\ invalidated(txn[r].key)
                      THEN [txn[r] EXCEPT !.outdated = TRUE]
                      ELSE txn[r]]
        /\ last' = [op |-> "invalidate_cache", key |-> prefix, ok |-> TRUE,
                    result |-> None, stored |-> FALSE, outdated |-> FALSE]
        /\ UNCHANGED <<hits, misses, now, rows, minutesIn, gets, lock, storage>>

\* the clock advances between calls
Advance(limit) ==
    /\ now < limit
    /\ now' = now + 1
    /\ UNCHANGED <<cache, hits, misses, rows, minutesIn, gets, txn, lock, storage, last>>

Tick == Advance(MaxTime)

ClockTick == Advance(MaxClock)

\* long enough for an entry stored with the default ttl to expire
ServiceTick == Advance(default_ttl + MaxClock)

Init ==
    /\ cache = <<>>
    /\ hits = 0
    /\ misses = 0
    /\ now = 0
    /\ rows = <<>>
    /\ minutesIn = [k \in UserIds \X SubLinkIds |-> 0]
    /\ gets = 0
    /\ txn = [r \in Requests |-> Idle]
    /\ lock = FALSE
    /\ storage = [u \in RateUsers |-> <<>>]
    /\ last = [op |-> "init"]

CacheNext ==
    \/ \E k \in KeyArgs : get(k[1], k[2])
    \/ \E k \in KeyArgs, v \in Contents, t \in TtlArgs : set(k[1], k[2], v, t)
    \/ \E m \in MovieIds, l \in {Some(x) : x \in LanguageIds} \cup {None} :
          invalidate(m, l)
    \/ clear
    \/ \E d \in WarmArgs : warm_cache(d)
    \/ Tick

CacheSpec == Init /\ [][CacheNext]_vars

\* every progress operation, called with indices from 0 to one past the
\* longest alignment set; the clock is held still, the properties checked
\* under this specification do not read last_accessed
ProgressNext ==
    \/ \E u \in UserIds, l \in SubLinkIds, i \in 0..(NumPairs + 1), m \in {0, 1} :
          update_progress(u, l, i, m)
    \/ \E u \in UserIds, l \in SubLinkIds : get_user_progress(u, l)
    \/ \E u \in UserIds, l \in SubLinkIds : subtitles_get_user_progress(u, l)
    \/ \E u \in UserIds, l \in SubLinkIds, i \in 0..(NumPairs + 1) :
          subtitles_update_user_progress(u, l, i)

ProgressSpec == Init /\ [][ProgressNext]_vars

\* ProgressService alone, called with every kind of argument: negative
\* indices and minutes, indices beyond the total, the id of no link
UpdateNext ==
    \/ \E u \in UserIds, l \in SubLinkArgs, i \in IndexArgs, m \in MinuteArgs :
          update_progress(u, l, i, m)
    \/ \E u \in UserIds, l \in SubLinkArgs : get_user_progress(u, l)
    \/ ClockTick

UpdateSpec == Init /\ [][UpdateNext]_vars

\* ProgressService.update_progress called for sub_link 1 by two requests
\* whose steps interleave; the clock is held still
ConcurrentNext ==
    \/ \E r \in Requests, u \in UserIds, i \in 0..NumPairs, m \in {0, 1} :
          query_progress(r, u, 1, i, m)
    \/ \E r \in Requests : commit_progress(r)

ConcurrentSpec == Init /\ [][ConcurrentNext]_vars

\* SubtitleService, the only caller of the cache in the application
ServiceNext ==
    \/ \E k \in KeyArgs, reply \in SourceReplies :
          get_subtitle_content(k[1], k[2], reply)
    \/ \E m \in MovieIds, l \in {Some(x) : x \in LanguageIds} \cup {None} :
          invalidate_cache(m, l)
    \/ ServiceTick

ServiceSpec == Init /\ [][ServiceNext]_vars

\* the alignments handler, for every stored payload and query arguments
\* from one below to two above the window sizes, and a limit above the cap
\* table sub_lines holds every line the payloads name, or the source lines
\* of the longest payload only
PageNext ==
    \E u \in UserIds, l \in {0, 1, 3},
       row \in {Some(x) : x \in Payloads} \cup {None},
       sub_lines \in {1..(2 * MaxPairs), 1..MaxPairs},
       start \in -1..(MaxPairs + 1),
       limit \in (0..(MaxPairs + 2)) \cup {max_limit + 1} :
       get_subtitle_alignments(u, l, row, sub_lines, start, limit)

PageSpec == Init /\ [][PageNext]_vars

\* The streak of a user with up to MaxRecords rows. The database stamps
\* last_accessed with its CURRENT_TIMESTAMP (UTC) and date.today() is the
\* local day of the server, so the newest stamp may fall on the day after
\* today, never later.
StreakNext ==
    \E u \in UserIds, today \in 0..MaxDay,
       records \in {R \in SUBSET Datetimes : Cardinality(R) <= MaxRecords} :
       /\ \A t \in records : date(t) <= today + 1
       /\ calculate_learning_streak(u, records, today)

StreakSpec == Init /\ [][StreakNext]_vars

\* ProgressService.update_progress with accepted arguments and the dashboard
\* of the user; date.today() is the local day, the records carry the day of
\* the database clock, one day either side of it at most
DashboardNext ==
    \/ \E u \in UserIds, l \in SubLinkIds, i \in 0..NumPairs, m \in {0, 1} :
          update_progress(u, l, i, m)
    \/ \E u \in UserIds, today \in {now - 1, now, now + 1},
          scalar_ok \in BOOLEAN :
          get_dashboard_statistics(u, today, scalar_ok)
    \/ ClockTick

DashboardSpec == Init /\ [][DashboardNext]_vars

\* two threads that call every method of one SubtitleCache: get, set and
\* invalidate for one key, warm_cache with an entry of another key; the clock
\* may advance between any two steps
ThreadNext ==
    \/ \E r \in Requests : with_lock(r)
    \/ \E r \in Requests : get_enter(r, 1, 1)
    \/ \E r \in Requests : get_lookup(r)
    \/ \E r \in Requests : get_delete(r)
    \/ \E r \in Requests : get_read_counter(r)
    \/ \E r \in Requests : get_return(r)
    \/ \E r \in Requests : set_enter(r, 1, 1, "v2", 1)
    \/ \E r \in Requests : set_store(r)
    \/ \E r \in Requests : set_evict_expired(r)
    \/ \E r \in Requests : set_enforce_size_limit(r)
    \/ \E r \in Requests : invalidate_enter(r, 1, Some(1))
    \/ \E r \in Requests : invalidate_delete(r)
    \/ \E r \in Requests : clear_enter(r)
    \/ \E r \in Requests : clear_map(r)
    \/ \E r \in Requests : clear_counters(r)
    \/ \E r \in Requests : get_stats_enter(r)
    \/ \E r \in Requests : get_stats_total(r)
    \/ \E r \in Requests : get_stats_return(r)
    \/ \E r \in Requests :
          warm_cache_enter(r, <<[movie_id |-> 1, language_id |-> 2,
                                 content |-> "v1"]>>)
    \/ \E r \in Requests : warm_cache_store(r)
    \/ \E r \in Requests : warm_cache_return(r)
    \/ Tick

ThreadSpec == Init /\ [][ThreadNext]_vars

\* the alignment sets of 0 to MaxPairs pairs
WellFormedPayloads == {PairsPayload(n) : n \in 0..MaxPairs}

\* the paging client with every limit from 1 to one more than the longest
\* set and with the largest limit, for sets of 0 to MaxPairs pairs; and
\* single requests for such sets, at start indices up to one past their end
ClientNext ==
    \/ \E u \in UserIds, total \in 0..MaxPairs,
          limit \in (1..(MaxPairs + 1)) \cup {max_limit} :
          client_first_page(u, total, limit)
    \/ client_next_page
    \/ \E u \in UserIds, payload \in WellFormedPayloads,
          start \in 0..(MaxPairs + 1),
          limit \in (1..(MaxPairs + 1)) \cup {max_limit} :
          get_subtitle_alignments(u, 1, Some(payload), 1..(2 * MaxPairs),
                                  start, limit)

ClientSpec == Init /\ [][ClientNext]_vars

\* two requests for the subtitles of movies 1 and 12 in language 1, and
\* invalidations of movie 1; the clock is held still
FillNext ==
    \/ \E r \in Requests, m \in MovieIds : content_get(r, m, 1)
    \/ \E r \in Requests, reply \in SourceReplies : content_query(r, reply)
    \/ \E r \in Requests : content_set(r)
    \/ \E l \in {Some(1), None} : content_invalidate(1, l)

FillSpec == Init /\ [][FillNext]_vars

(***************************************************************************)
(* rate_limit of blueprints/api/subtitles.py                               *)
(***************************************************************************)
\* the length of the window in seconds
window == 60

\* the request times of the log after window_start = t - window
clean_old_requests(log, t) ==
    SelectSeq(log, LAMBDA req_time : req_time > t - window)

\* decorated_function appending the time of the request before the limit
\* is checked
decorated_function_append_first(log, t, requests_per_minute) ==
    LET cleaned == clean_old_requests(log, t)
    IN  IF Len(cleaned) >= requests_per_minute
        THEN [admitted |-> FALSE, log |-> Append(cleaned, t)]
        ELSE [admitted |-> TRUE, log |-> Append(cleaned, t)]

\* decorated_function on the log of the user at time t: whether the wrapped
\* view is called (otherwise the response is 429) and the log it leaves
decorated_function(log, t, requests_per_minute) ==
    LET cleaned == clean_old_requests(log, t)
    IN  IF Len(cleaned) >= requests_per_minute
        THEN [admitted |-> FALSE, log |-> cleaned]
        ELSE [admitted |-> TRUE, log |-> Append(cleaned, t)]

\* a request of user_id to an endpoint decorated with
\* @rate_limit(requests_per_minute). last.history keeps, per user, the time
\* of every request admitted since the start.
rate_limit(user_id, requests_per_minute) ==
    LET r == decorated_function(storage[user_id], now, requests_per_minute)
        history == IF last.op = "rate_limit" THEN last.history
                   ELSE [u \in RateUsers |-> <<>>]
    IN  /\ storage' = [storage EXCEPT ![user_id] = r.log]
        /\ last' = [op |-> "rate_limit", user_id |-> user_id,
                    requests_per_minute |-> requests_per_minute,
                    now |-> now, admitted |-> r.admitted,
                    history |-> IF r.admitted
                                THEN [history EXCEPT ![user_id] = Append(@, now)]
                                ELSE history]
        /\ UNCHANGED <<cache, hits, misses, now, rows, minutesIn, gets, txn, lock>>

\* time.time() moves on by half a window
RateTick ==
    /\ now < MaxTicks * (window \div 2)
    /\ now' = now + (window \div 2)
    /\ UNCHANGED <<cache, hits, misses, rows, minutesIn, gets, txn, lock,
                   storage, last>>

\* requests of two users to endpoints with limits of 1 to MaxLimit requests
\* per minute, over MaxTicks half windows
RateNext ==
    \/ \E u \in RateUsers, n \in 1..MaxLimit : rate_limit(u, n)
    \/ RateTick

RateSpec == Init /\ [][RateNext]_vars

(***************************************************************************)
(* Properties of SubtitleCache                                             *)
(***************************************************************************)

\* C1: when a set returns, the cache holds at most max_size entries, whatever
\* the keys, the ttls, the time that passed and the entries held before
\* (also entries that warm_cache stored beyond the limit).
CacheBound == last.op = "set" => Len(cache) <= max_size

\* a set that found more than max_size unexpired entries and cut them down
CacheBoundWitness ==
    /\ last.op = "set"
    /\ last.unexpired > max_size
    /\ Len(cache) = max_size

\* C2: a get of an entry whose expiry lies before the clock returns None and
\* leaves no entry for the key; a get of a key without entry returns None;
\* and only set and warm_cache put a key (back) into the cache.
CacheExpiry ==
    /\ [](last.op = "get" /\ last.found /\ last.expired
            => last.result = None /\ last.key \notin CacheKeys(cache))
    /\ [](last.op = "get" /\ ~last.found
            => last.result = None /\ last.key \notin CacheKeys(cache))
    /\ [][\A k \in CacheKeys(cache') \ CacheKeys(cache) :
             last'.op \in {"set", "warm_cache"}]_vars

\* a get that met an expired entry, answered None and removed it
CacheExpiryWitness ==
    /\ last.op = "get"
    /\ last.found
    /\ last.expired
    /\ last.result = None
    /\ last.key \notin CacheKeys(cache)

\* C3: when a set leaves more than max_size unexpired entries, exactly
\* max_size remain and no evicted entry expires later than a retained one.
EvictionOrder ==
    last.op = "set" /\ last.unexpired > max_size
        => /\ Len(cache) = max_size
           /\ \A x \in last.evicted : \A i \in 1..Len(cache) : x <= cache[i].expiry

\* a set that evicted an entry expiring strictly before a retained one
EvictionOrderWitness ==
    /\ last.op = "set"
    /\ last.unexpired > max_size
    /\ \E x \in last.evicted : \E i \in 1..Len(cache) : x < cache[i].expiry

\* C14: a get of a key with an unexpired entry returns the entry's content
\* and adds one to hits and nothing to misses; any other get returns None
\* and adds one to misses and nothing to hits; hits + misses is the number
\* of get calls since construction or the last clear.
GetCounts ==
    /\ last.op = "get" /\ last.found /\ ~last.expired
          => /\ last.result # None
             /\ last.key \in CacheKeys(cache)
             /\ last.result[1] = Entry(cache, last.key).content
             /\ hits = last.hits + 1
             /\ misses = last.misses
    /\ last.op = "get" /\ ~(last.found /\ ~last.expired)
          => /\ last.result = None
             /\ misses = last.misses + 1
             /\ hits = last.hits
    /\ hits + misses = gets

\* a get that was a hit: the first get since construction or a clear
GetCountsWitness ==
    /\ last.op = "get"
    /\ last.found
    /\ ~last.expired
    /\ last.result = Some("v1")
    /\ hits = 1
    /\ misses = 0
    /\ gets = 1

\* the (movie_id, language_id) pair an entry was stored for
KeyOf(key) == CHOOSE k \in MovieIds \X LanguageIds : generate_key(k[1], k[2]) = key

\* C15: invalidate(m, l) leaves the cache as it was without the entry of
\* (m, l), and invalidate(m) as it was without the entries of movie m; the
\* other entries (those of movie 12 when m is 1, too) keep their content,
\* expiry and order, and hits and misses keep their values. (The step of a
\* call is the one that leaves its record in last with the clock unmoved.)
InvalidateFrame ==
    [][last'.op = "invalidate" /\ now' = now =>
          /\ cache' = SelectSeq(cache,
                                LAMBDA e :
                                   ~(/\ KeyOf(e.key)[1] = last'.movie_id
                                     /\ \/ last'.language_id = None
                                        \/ last'.language_id = Some(KeyOf(e.key)[2])))
          /\ hits' = hits
          /\ misses' = misses]_vars

\* invalidate(1) that removed entries and left the entry of movie 12
InvalidateFrameWitness ==
    /\ last.op = "invalidate"
    /\ last.movie_id = 1
    /\ last.language_id = None
    /\ last.removed > 0
    /\ CacheKeys(cache) = {generate_key(12, 1)}

\* C16: a get that follows a set of its key, with no other cache call in
\* between and the expiry the set computed not yet passed, returns the
\* content that was set and is counted as a hit, whatever the cache held.
SetThenGet ==
    last.op = "get" /\ last.prev # None /\ last.prev[1].live
        => /\ last.result = Some(last.prev[1].content)
           /\ hits = last.hits + 1
           /\ misses = last.misses

\* C16 as amended: the same, for a set that found fewer than max_size other
\* unexpired entries expiring no sooner than the entry it stored.
SetThenGetRetained ==
    last.op = "get" /\ last.prev # None /\ last.prev[1].live
                    /\ last.prev[1].later < max_size
        => /\ last.result = Some(last.prev[1].content)
           /\ hits = last.hits + 1
           /\ misses = last.misses

\* set then get, returning what was set
SetThenGetWitness ==
    /\ last.op = "get"
    /\ last.prev # None
    /\ last.prev[1].live
    /\ last.prev[1].later < max_size
    /\ last.result = Some("v2")
    /\ hits = 1

\* C25: warm_cache stores every given entry with expiry now + default_ttl
\* and leaves hits and misses as they were, and the cache holds at most
\* max_size entries when it returns.
WarmBounded ==
    [][last'.op = "warm_cache" /\ now' = now =>
          /\ \A i \in 1..Len(last'.data) :
                LET key == generate_key(last'.data[i].movie_id,
                                        last'.data[i].language_id)
                IN  /\ key \in CacheKeys(cache')
                    /\ Entry(cache', key).expiry = now + default_ttl
                    /\ Entry(cache', key).content = last'.data[i].content
          /\ hits' = hits
          /\ misses' = misses
          /\ Len(cache') <= max_size]_vars

(***************************************************************************)
(* Properties of SubtitleService                                           *)
(***************************************************************************)

FetchedOnce ==
    /\ last.op = "get_subtitle_content" /\ last.ok
          => /\ last.key \in CacheKeys(cache)
             /\ Some(Entry(cache, last.key).content) = last.result
    /\ last.op = "get_subtitle_content" /\ last.prev # None /\ last.prev[1].live
          => /\ last.ok
             /\ ~last.queried
             /\ last.result = last.prev[1].result

\* a miss that fetched, then a hit for the same key after the clock moved
FetchedOnceWitness ==
    /\ last.op = "get_subtitle_content"
    /\ last.prev # None
    /\ last.prev[1].queried
    /\ last.prev[1].live
    /\ ~last.queried
    /\ last.result = last.prev[1].result
    /\ last.expiry = now + default_ttl - 1

(***************************************************************************)
(* Properties of progress tracking                                         *)
(***************************************************************************)
ProgressKeys == UserIds \X SubLinkIds

\* the stored snapshot of a key that has one
Snapshot(k) == first(rows, k[1], k[2])[1]

\* the number of aligned pairs of an alignment set, 0 without payload
PairCount(sub_link_id) == IF sub_link_id = 1 THEN NumPairs ELSE 0

WriteOps == {"update_progress", "subtitles_update_user_progress"}
ReadOps == {"get_user_progress", "subtitles_get_user_progress"}

IndexWithinTotal ==
    \A i \in 1..Len(rows) :
        /\ 0 <= rows[i].current_alignment_index
        /\ rows[i].current_alignment_index <= PairCount(rows[i].sub_link_id)

RejectedUpdateNoEffect ==
    last.op = "update_progress" /\ ~last.ok => rows = last.before

\* an index above the total rejected for a key that has an older snapshot
RejectedUpdateWitness ==
    /\ last.op = "update_progress"
    /\ ~last.ok
    /\ last.error = ExceedsTotal
    /\ last.pre # None
    /\ Snapshot(last.key) = last.pre[1]
    /\ Snapshot(last.key).last_accessed < now
    /\ Snapshot(last.key).current_alignment_index # last.index

ProgressStateMachine ==
    /\ last.op \in ReadOps /\ last.pre = None
          => last.result = None /\ first(rows, last.key[1], last.key[2]) = None
    /\ last.op \in ReadOps \cup WriteOps /\ last.pre # None
          => first(rows, last.key[1], last.key[2]) # None
    /\ last.op \in ReadOps \cup WriteOps /\ last.pre = None
          /\ first(rows, last.key[1], last.key[2]) # None
          => last.op \in WriteOps /\ last.ok

IsCompletion(p, x, total) ==
    IF total = 0 THEN p = 0
    ELSE LET cut == IF x > total THEN total ELSE IF x < 0 THEN 0 ELSE x
             d == p * total - cut * 10000
         IN  p \in 0..10000 /\ 2 * d <= total /\ 2 * (-d) <= total

WellFormed(payload) ==
    /\ payload.kind = "list"
    /\ \A i \in 1..Len(payload.elems) :
          /\ payload.elems[i].list
          /\ Len(payload.elems[i].items) = 2
          /\ payload.elems[i].items[1].list
          /\ payload.elems[i].items[2].list

\* a call that got as far as reading the payload of an existing row
ReadsPayload ==
    /\ last.op = "get_subtitle_alignments"
    /\ last.sub_link_id \in SubLinkIds
    /\ last.start_index >= 0
    /\ last.limit \in 1..max_limit
    /\ last.row # None

\* C18: for a set of total pairs the handler returns the alignments
\* start_index .. min(start_index + limit, total) - 1 in this order, each
\* with its own index and id lists, and has_more tells whether
\* min(start_index + limit, total) < total.
PageWindow ==
    ReadsPayload /\ WellFormed(last.row[1]) =>
        LET elems == last.row[1].elems
            total == Len(elems)
            e == IF last.start_index + last.limit < total
                 THEN last.start_index + last.limit ELSE total
            n == IF e > last.start_index THEN e - last.start_index ELSE 0
        IN  /\ last.response.status = 200
            /\ last.response.alignments =
                  [i \in 1..n |->
                      [index |-> last.start_index + i - 1,
                       source_lines |-> elems[last.start_index + i].items[1].ids,
                       target_lines |-> elems[last.start_index + i].items[2].ids]]
            /\ last.response.has_more = (e < total)

\* C19: the handler answers INVALID_ALIGNMENT_DATA exactly when the payload
\* it read is not a well-formed sequence of pairs of id lists.
InvalidDataWhenMalformed ==
    ReadsPayload =>
        (last.response.code = "INVALID_ALIGNMENT_DATA" <=> ~WellFormed(last.row[1]))

(***************************************************************************)
(* Properties of the learning streak                                       *)
(***************************************************************************)

\* the days on which the user has a snapshot
ActivityDays == {date(t) : t \in last.progress_records}

\* the length of the longest run of consecutive days of D that ends at day d
ChainEndingAt(D, d) ==
    CHOOSE n \in 1..Cardinality(D) :
        /\ \A k \in 0..(n - 1) : d - k \in D
        /\ d - n \notin D

\* C20: current_streak is 0 when the user has no snapshot or the most
\* recent day with one is neither today nor yesterday, and else the length
\* of the run of consecutive days that ends at the most recent day.
CurrentStreak ==
    last.op = "calculate_learning_streak" =>
        IF ActivityDays = {} THEN last.result.current_streak = 0
        ELSE LET recent == CHOOSE d \in ActivityDays : \A e \in ActivityDays : e <= d
             IN  IF recent \in {last.today, last.today - 1}
                 THEN last.result.current_streak = ChainEndingAt(ActivityDays, recent)
                 ELSE last.result.current_streak = 0

\* C21: whatever the snapshots and whatever today is, the longest streak of
\* the result is at least its current streak.
LongestAtLeastCurrent ==
    last.op = "calculate_learning_streak" =>
        last.result.longest_streak >= last.result.current_streak

\* a current streak of several days, with a gap before older activity
LongestAtLeastCurrentWitness ==
    /\ last.op = "calculate_learning_streak"
    /\ last.result.current_streak >= 2
    /\ Cardinality(ActivityDays) > last.result.current_streak

\* the runs of consecutive days of D, each by the length it has at its last day
RunLengths(D) == {ChainEndingAt(D, d) : d \in {e \in D : e + 1 \notin D}}

\* C26: longest_streak is 0 when the user has no snapshot, and else the
\* length of the longest run of distinct activity days each one calendar day
\* after the one before, wherever the run lies in the history.
LongestStreak ==
    last.op = "calculate_learning_streak" =>
        IF ActivityDays = {} THEN last.result.longest_streak = 0
        ELSE /\ last.result.longest_streak >= 1
             /\ last.result.longest_streak \in RunLengths(ActivityDays)
             /\ \A n \in RunLengths(ActivityDays) :
                    n <= last.result.longest_streak

\* two runs, the longest being the oldest one and not the most recent
LongestStreakWitness ==
    /\ last.op = "calculate_learning_streak"
    /\ Cardinality(RunLengths(ActivityDays)) >= 2
    /\ LET oldest == CHOOSE d \in ActivityDays : \A e \in ActivityDays : d <= e
           recent == CHOOSE d \in ActivityDays : \A e \in ActivityDays : e <= d
       IN  /\ oldest + 1 \in ActivityDays
           /\ recent - 1 \notin ActivityDays
           /\ last.result.longest_streak = 2

(***************************************************************************)
(* Properties of the dashboard                                             *)
(***************************************************************************)

InCriticalSection(r) == txn[r].pc \notin {"idle", "with"}

\* C24: the statements by which get, set, invalidate, clear, get_stats and
\* warm_cache read and write the entries and the counters run for one thread
\* at a time, under the lock; whenever the lock is free every get that has
\* returned is counted, once, as a hit or a miss; and every get_stats result
\* has total_requests = hits + misses.
LockAtomic ==
    /\ Cardinality({r \in Requests : InCriticalSection(r)}) <= 1
    /\ lock <=> \E r \in Requests : InCriticalSection(r)
    /\ ~lock => hits + misses = gets
    /\ last.op = "get_stats" =>
           last.result[1].total_requests
               = last.result[1].hits + last.result[1].misses

\* a set has stored its entry and not yet cut the cache down to max_size,
\* while the other thread waits for the lock and a get has been counted
LockAtomicWitness ==
    \E r \in Requests, q \in Requests :
        /\ txn[r].pc = "enforce"
        /\ Len(cache) > max_size
        /\ txn[q].pc = "with"
        /\ hits + misses >= 1

\* C28: once an invalidation of a key has completed, the cache does not hold
\* for that key content that a get_subtitle_content read from the database
\* before the invalidation, whichever way the steps of the calls interleave.
NoStaleFill ==
    last.op = "get_subtitle_content" /\ last.stored /\ last.outdated =>
        ~ /\ last.key \in CacheKeys(cache)
          /\ Some(Entry(cache, last.key).content) = last.result

(***************************************************************************)
(* Properties of the line lookup of the alignments handler                 *)
(***************************************************************************)

\* the ids of a sequence of ids
Ids(seq) == {seq[j] : j \in 1..Len(seq)}

\* the line ids that the alignments of the returned window name
WindowIds ==
    UNION {Ids(last.response.alignments[i].source_lines)
             \cup Ids(last.response.alignments[i].target_lines) :
           i \in 1..Len(last.response.alignments)}

\* C27: a call that returns a page makes at most one query of sub_lines,
\* none when its window names no line id and else one for the union of the
\* source and target ids of the window; the map of lines it returns has
\* the ids of that union which table sub_lines holds and no other, and an
\* id the table does not hold is left out without an error.
BatchedLookup ==
    ReadsPayload /\ last.response.status = 200 =>
        /\ last.response.lookups = (IF WindowIds = {} THEN 0 ELSE 1)
        /\ last.response.lookup_ids = WindowIds
        /\ last.response.subtitle_lines \subseteq WindowIds
        /\ last.response.subtitle_lines = WindowIds \cap last.sub_lines

\* a window of several alignments whose target lines table sub_lines lacks
BatchedLookupWitness ==
    /\ ReadsPayload
    /\ last.response.status = 200
    /\ Len(last.response.alignments) >= 2
    /\ last.response.lookups = 1
    /\ last.response.subtitle_lines # {}
    /\ last.response.subtitle_lines # WindowIds

(***************************************************************************)
(* Properties of a client that pages through an alignment set              *)
(***************************************************************************)

\* C29: the paging client has received, after each of its requests, the
\* indices 0, 1, ... in ascending order, each once, up to the end of the
\* window it asked for last; it is told has_more exactly while indices are
\* left, so that it stops with all of 0..total-1 after ceil(total / limit)
\* requests (after its one request when the set is empty); and a request
\* with start_index >= total returns a page without alignments and with
\* has_more false.
PagingClient ==
    /\ last.op = "client" =>
         LET reached == IF last.requests * last.limit < last.total
                        THEN last.requests * last.limit ELSE last.total
         IN  /\ last.status = 200
             /\ last.received = [i \in 1..reached |-> i - 1]
             /\ last.has_more <=> reached < last.total
             /\ ~last.has_more /\ last.total > 0 =>
                    last.requests = (last.total + last.limit - 1) \div last.limit
    /\ ReadsPayload /\ WellFormed(last.row[1])
         /\ last.start_index >= Len(last.row[1].elems) =>
             /\ last.response.status = 200
             /\ last.response.alignments = <<>>
             /\ ~last.response.has_more

(***************************************************************************)
(* Properties of rate_limit                                                *)
(***************************************************************************)
\* the requests of the user of the last call that were admitted before it
AdmittedBefore ==
    LET h == last.history[last.user_id]
    IN  IF last.admitted THEN SubSeq(h, 1, Len(h) - 1) ELSE h

\* those of them within the window that ends at the last call
AdmittedInWindow ==
    SelectSeq(AdmittedBefore, LAMBDA at : at > last.now - window)

\* C30: a request is admitted only if fewer requests of its user than the
\* limit of its endpoint were admitted, by whatever endpoint, in the window
\* before it; the log of the user then holds the times of these requests
\* followed by the time of the admitted one, and after a rejected request
\* the times of these requests only.
RateLimited ==
    last.op = "rate_limit" =>
        /\ last.admitted =>
               Len(AdmittedInWindow) < last.requests_per_minute
        /\ storage[last.user_id] =
               IF last.admitted
               THEN Append(AdmittedInWindow, last.now)
               ELSE AdmittedInWindow

\* a request to an endpoint is rejected when more requests than its limit
\* were admitted within the window, so that an endpoint with a larger limit
\* admitted one of them, while an older request has left the window and the
\* other user has a log
RateLimitedWitness ==
    /\ last.op = "rate_limit"
    /\ ~last.admitted
    /\ Len(AdmittedInWindow) > last.requests_per_minute
    /\ AdmittedInWindow # AdmittedBefore
    /\ \E v \in RateUsers \ {last.user_id} : storage[v] # <<>>

====
